---- MODULE Spec2Model ----
(***************************************************************************)
(* A model of the observations client of gonaturalist (observations.go).   *)
(*                                                                         *)
(* Strings are sequences of one-character strings, so that formatting,     *)
(* escaping and parsing are computed character by character.  Floating     *)
(* point coordinates are counted in hundredths of a degree (Scale), the    *)
(* value NaN standing for the floats encoding/json refuses to marshal.     *)
(* Every call of the client is one action; the answer of the HTTP          *)
(* executor is an input of the call.                                       *)
(***************************************************************************)
EXTENDS Integers, Sequences, FiniteSets, TLC

VARIABLES rootUrl,   \* the client's configured root URL (Client.rootUrl)
          pc,        \* "idle": no call made yet / caller took the result; "returned"
          op,        \* the operation last called
          arg,       \* the arguments the caller passed
          intent,    \* UpdateObservation: what the caller meant to set (ghost)
          execLog,   \* the requests handed to the HTTP executor during the call
          outcome,   \* what the executor answered (None when it was not invoked)
          ret        \* what the call returned to its caller

vars == <<rootUrl, pc, op, arg, intent, execLog, outcome, ret>>

None == [t |-> "none"]

-----------------------------------------------------------------------------
(* Bounds of the model. *)

\* ids of observations are 1..MaxId
MaxId == 2
\* a list response holds at most MaxList elements
MaxList == 2
\* page numbers are 1..MaxPage
MaxPage == 2

\* hundredths per degree: the fixed-point scale of the modelled float64 values
Scale == 100
\* a float64: a number of hundredths, or NaN (which encoding/json cannot marshal)
F(n) == [nan |-> FALSE, v |-> n]
NaN == [nan |-> TRUE, v |-> 0]
\* http.StatusCreated, the status the mutating operations ask for
StatusCreated == 201
\* http.StatusOK, the status c.get asks for
StatusOK == 200

-----------------------------------------------------------------------------
(* Strings, numbers and times as Go formats them. *)

Digits == <<"0", "1", "2", "3", "4", "5", "6", "7", "8", "9">>

Abs(n) == IF n < 0 THEN -n ELSE n

RECURSIVE NatStr(_)
NatStr(n) == IF n < 10 THEN <<Digits[n + 1]>>
             ELSE NatStr(n \div 10) \o <<Digits[(n % 10) + 1]>>

\* strconv.Itoa
Itoa(n) == IF n < 0 THEN <<"-">> \o NatStr(-n) ELSE NatStr(n)

\* the digits of n, zero-padded on the left to width w (time.Format's 01, 02, 2006)
RECURSIVE Pad(_, _)
Pad(n, w) == IF w = 0 THEN <<>> ELSE Pad(n \div 10, w - 1) \o <<Digits[(n % 10) + 1]>>

RECURSIVE StripZeros(_)
StripZeros(s) == IF s # <<>> /\ s[Len(s)] = "0" THEN StripZeros(SubSeq(s, 1, Len(s) - 1))
                 ELSE s

\* fmt.Sprintf("%v", f) for a float64 f = x / Scale: the shortest decimal that
\* reads back as f; in this range never an exponent, never a trailing zero
FormatFloat(x) ==
    IF x.nan THEN <<"N", "a", "N">>
    ELSE LET frac == StripZeros(Pad(Abs(x.v) % Scale, 2))
         IN  (IF x.v < 0 THEN <<"-">> ELSE <<>>)
             \o NatStr(Abs(x.v) \div Scale)
             \o (IF frac = <<>> THEN <<>> ELSE <<".">> \o frac)

\* time.Time.Format("2006-01-02")
FormatDate(t) == Pad(t.Y, 4) \o <<"-">> \o Pad(t.M, 2) \o <<"-">> \o Pad(t.D, 2)

\* the zone of time.RFC3339, "Z07:00": Z for UTC, else the signed offset
FormatZone(off) ==
    IF off = 0 THEN <<"Z">>
    ELSE (IF off < 0 THEN <<"-">> ELSE <<"+">>)
         \o Pad(Abs(off) \div 60, 2) \o <<":">> \o Pad(Abs(off) % 60, 2)

\* time.Time.Format(time.RFC3339)
FormatRFC3339(t) ==
    FormatDate(t) \o <<"T">> \o Pad(t.h, 2) \o <<":">> \o Pad(t.m, 2) \o <<":">>
    \o Pad(t.s, 2) \o FormatZone(t.off)

-----------------------------------------------------------------------------
(* net/url: Values, QueryEscape, Encode. *)

Unreserved == {Digits[i] : i \in 1..10}
              \cup { <<"a", "b", "c", "d", "e", "f", "g", "h", "i", "j", "k", "l", "m", "n", "o", "p", "q", "r", "s", "t", "u", "v", "w", "x", "y", "z">>[i] : i \in 1..26 }
              \cup { <<"A", "B", "C", "D", "E", "F", "G", "H", "I", "J", "K", "L", "M", "N", "O", "P", "Q", "R", "S", "T", "U", "V", "W", "X", "Y", "Z">>[i] : i \in 1..26 }
              \cup {"-", "_", ".", "~"}

\* the percent-encoding of the reserved characters the client can produce
Hex == [c \in {"[", "]", ":", "+", "/", "=", "&", "?"} |->
          CASE c = "[" -> <<"%", "5", "B">> [] c = "]" -> <<"%", "5", "D">> [] c = ":" -> <<"%", "3", "A">>
            [] c = "+" -> <<"%", "2", "B">> [] c = "/" -> <<"%", "2", "F">> [] c = "=" -> <<"%", "3", "D">>
            [] c = "&" -> <<"%", "2", "6">> [] c = "?" -> <<"%", "3", "F">>]

RECURSIVE QueryEscape(_)
QueryEscape(s) ==
    IF s = <<>> THEN <<>>
    ELSE (IF s[1] \in Unreserved THEN <<s[1]>>
          ELSE IF s[1] = " " THEN <<"+">>
          ELSE Hex[s[1]]) \o QueryEscape(Tail(s))

\* url.Values{}: a map from key to value (the client only ever calls Set)
EmptyValues == <<>>

\* url.Values.Set: the key's former value is replaced
Set(v, k, val) == [q \in DOMAIN v \cup {k} |-> IF q = k THEN val ELSE v[q]]

\* the keys GetObservations can set, in the byte order Encode sorts them
SortedKeys == << <<"h", "a", "s", "[", "]">>, <<"n", "e", "l", "a", "t">>, <<"n", "e", "l", "n", "g">>, <<"o", "n">>, <<"o", "r", "d", "e", "r">>, <<"o", "r", "d", "e", "r", "_", "b", "y">>, <<"p", "a", "g", "e">>,
                 <<"p", "e", "r", "_", "p", "a", "g", "e">>, <<"s", "w", "l", "a", "t">>, <<"s", "w", "l", "n", "g">>, <<"u", "p", "d", "a", "t", "e", "d", "_", "s", "i", "n", "c", "e">> >>

RECURSIVE EncodeFrom(_, _)
EncodeFrom(v, i) ==
    IF i > Len(SortedKeys) THEN <<>>
    ELSE LET k    == SortedKeys[i]
             rest == EncodeFrom(v, i + 1)
         IN  IF k \notin DOMAIN v THEN rest
             ELSE QueryEscape(k) \o <<"=">> \o QueryEscape(v[k])
                  \o (IF rest = <<>> THEN <<>> ELSE <<"&">> \o rest)

\* url.Values.Encode: "k=v" pairs sorted by key, escaped, joined by "&"
Encode(v) == EncodeFrom(v, 1)

\* url.QueryUnescape of one escaped key or value
RECURSIVE QueryUnescape(_)
QueryUnescape(s) ==
    IF s = <<>> THEN <<>>
    ELSE IF s[1] = "%" /\ Len(s) >= 3
         THEN <<CHOOSE c \in DOMAIN Hex : Hex[c] = SubSeq(s, 1, 3)>>
              \o QueryUnescape(SubSeq(s, 4, Len(s)))
    ELSE IF s[1] = "+" THEN <<" ">> \o QueryUnescape(Tail(s))
    ELSE <<s[1]>> \o QueryUnescape(Tail(s))

\* the text after the first "?" of a URL (url.URL.RawQuery); <<>> without a "?"
HasQuery(u) == \E i \in 1..Len(u) : u[i] = "?"
RawQuery(u) ==
    IF ~HasQuery(u) THEN <<>>
    ELSE LET i == CHOOSE i \in 1..Len(u) : u[i] = "?" /\ \A j \in 1..(i - 1) : u[j] # "?"
         IN  SubSeq(u, i + 1, Len(u))

\* the least element of a non-empty set of numbers
Min(ns) == CHOOSE n \in ns : \A m \in ns : n <= m

\* one "key=value" segment of a raw query, unescaped
ParsePair(seg, eqs) ==
    IF eqs = {} THEN <<QueryUnescape(seg), <<>>>>
    ELSE <<QueryUnescape(SubSeq(seg, 1, Min(eqs) - 1)),
           QueryUnescape(SubSeq(seg, Min(eqs) + 1, Len(seg)))>>

Segment(q, a, amps) ==
    SubSeq(q, a, IF \E j \in amps : j > a THEN Min({j \in amps : j > a}) - 1 ELSE Len(q))

\* the segments of q between its "&", which stand at the positions amps
Segments(q, amps) ==
    IF q = <<>> THEN {} ELSE {Segment(q, a, amps) : a \in {1} \cup {j + 1 : j \in amps}}

\* url.ParseQuery: the key/value pairs of a raw query, unescaped
ParseQuery(q) ==
    {ParsePair(seg, {j \in 1..Len(seg) : seg[j] = "="})
       : seg \in Segments(q, {j \in 1..Len(q) : q[j] = "&"})}

-----------------------------------------------------------------------------
(* Optional values: a Go pointer that is nil or points to a value. *)

Nil == [t |-> "nil"]
Some(x) == [t |-> "some", v |-> x]
IsSet(p) == p.t = "some"
Opt(S) == {Nil} \cup {Some(x) : x \in S}

-----------------------------------------------------------------------------
(* The inputs the callers draw from. *)

Ids == 1..MaxId
Pages == 1..MaxPage
PerPages == {50}
Times == { [Y |-> 2017, M |-> 3, D |-> 4, h |-> 5, m |-> 6, s |-> 7, off |-> 0],
           [Y |-> 2016, M |-> 12, D |-> 31, h |-> 23, m |-> 59, s |-> 59, off |-> -480] }
Rectangles == { [Southwest |-> [Longitude |-> F(-1050), Latitude |-> F(2025)],
                Northeast |-> [Longitude |-> F(-500), Latitude |-> F(2575)]] }
OrderBys == { <<>>, <<"o", "b", "s", "e", "r", "v", "e", "d", "_", "o", "n">> }
Usernames == { <<"j", "a", "c", "o", "b">>, <<"j", " ", "d">> }
Tagses == { <<>>, <<"b", "i", "r", "d">> }
Guesses == { <<>>, <<"O", "w", "l">> }
Privacies == { <<>>, <<"o", "b", "s", "c", "u", "r", "e", "d">> }
Coordinates == { F(0), F(3750), NaN }
Accuracies == { 0, 10 }
RootUrls == { <<"h", "t", "t", "p", ":", "/", "/", "i", "n", "a", "t", ".", "t", "e", "s", "t">>, <<"h", "t", "t", "p", ":", "/", "/", "i", "n", "a", "t", "\t", ".", "t", "e", "s", "t">> }

\* *GetObservationsOpt: nil, or a value with each field nil or set
GetObservationsOpts ==
    Opt([PerPage : Opt(PerPages), Page : Opt(Pages), Rectangle : Opt(Rectangles),
         On : Opt({t \in Times : t.off = 0}), UpdatedSince : Opt({t \in Times : t.off # 0}),
         OrderBy : Opt(OrderBys), OrderAscending : Opt(BOOLEAN), HasGeo : Opt(BOOLEAN)])

\* AddObservationOpt values
AddObservationOpts ==
    [SpeciesGuess : Guesses, ObservedOnString : {t \in Times : t.off = 0},
     Description : { <<"s", "e", "e", "n">> }, Latitude : Coordinates, Longitude : { F(0), F(-12225) },
     PositionalAccuracy : Accuracies, Tags : Tagses, GeoPrivacy : Privacies]

\* what a caller of UpdateObservation means to send: each field left unset, or
\* set to a value (which may be the zero value of its type)
UpdateIntents ==
    [Id : Ids, SpeciesGuess : Opt(Guesses), ObservedOnString : Opt({t \in Times : t.off # 0}),
     Description : Opt({ <<"s", "e", "e", "n">> }), Latitude : Opt(Coordinates), Longitude : Opt({F(0)}),
     PositionalAccuracy : Opt(Accuracies), Tags : Opt(Tagses), GeoPrivacy : Opt({ <<"o", "b", "s", "c", "u", "r", "e", "d">> })]

-----------------------------------------------------------------------------
(* JSON values, as far as the client's types look at them. *)

Garbage == [j |-> "garbage"]      \* bytes that are not JSON
JAbsent == [j |-> "absent"]       \* a key the object does not have
JNull == [j |-> "null"]
JStr(s) == [j |-> "string", s |-> s]
JNum(x) == [j |-> "number", x |-> x]
JArr(es) == [j |-> "array", elems |-> es]
JObj(o) == [j |-> "object", o |-> o]

\* the latitude and longitude of an observation as the provider sends them:
\* absent, null, numeric strings, a string that is no number, bare numbers
Geos == { <<JAbsent, JAbsent>>, <<JNull, JNull>>, <<JStr(<<"0">>), JStr(<<"0">>)>>,
          <<JStr(<<"3", "7", ".", "5">>), JStr(<<"-", "1", "2", "2", ".", "2", "5">>)>>, <<JStr(<<"a", "b", "c">>), JStr(<<"1">>)>>,
          <<JNum(F(3750)), JNum(F(-12225))>> }
GoodGeo == <<JStr(<<"3", "7", ".", "5">>), JStr(<<"-", "1", "2", "2", ".", "2", "5">>)>>
BadGeo == <<JStr(<<"a", "b", "c">>), JStr(<<"1">>)>>

ObsJson(i, g) == JObj([id |-> JNum(F(i * Scale)), latitude |-> g[1], longitude |-> g[2]])

SeqsUpTo(S, n) == UNION { [1..k -> S] : k \in 0..n }

\* the elements of a list response: two observations that differ
ListElems == {ObsJson(1, GoodGeo), ObsJson(2, <<JNull, JNull>>)}

\* bodies of the list endpoints and of create
ListBodies == {Garbage, JNull, JArr(<<ObsJson(1, BadGeo)>>)}
              \cup { JArr(es) : es \in SeqsUpTo(ListElems, MaxList) }
\* bodies of the single-observation endpoints
ObjectBodies == {Garbage, JNull, JArr(<<>>)} \cup { ObsJson(i, g) : i \in Ids, g \in Geos }
\* bodies of update and delete
OtherBodies == {Garbage, JNull, ObsJson(1, GoodGeo)}

Statuses == {StatusOK, StatusCreated, 404}
\* the paging headers of a response, as PageHeaders; only a success carries them
Pagings == {Nil, Some([TotalEntries |-> 3, Page |-> 1])}
TransportErrors == {"connection refused", "timeout"}

\* what the HTTP executor can answer: a transport error, or a response
Outcomes(bodies) ==
    { [t |-> "transport", id |-> e] : e \in TransportErrors }
    \cup { [t |-> "response", status |-> st, body |-> b, paging |-> p]
           : st \in Statuses \ {StatusOK}, b \in bodies, p \in {Nil} }
    \cup { [t |-> "response", status |-> StatusOK, body |-> b, paging |-> p]
           : b \in bodies, p \in Pagings }

-----------------------------------------------------------------------------
(* encoding/json: decoding into the client's types. *)

DigitSet == {Digits[i] : i \in 1..10}
IsDigits(s) == \A i \in 1..Len(s) : s[i] \in DigitSet
DigitVal(c) == CHOOSE d \in 0..9 : Digits[d + 1] = c

RECURSIVE NatVal(_)
NatVal(s) == IF s = <<>> THEN 0
             ELSE NatVal(SubSeq(s, 1, Len(s) - 1)) * 10 + DigitVal(s[Len(s)])

\* the value of the digits ip "." fp, in hundredths
Magnitude(ip, fp) ==
    NatVal(ip) * Scale + (IF Len(fp) = 1 THEN 10 * NatVal(fp) ELSE NatVal(fp))

\* the integer part ip and the fraction fp of a decimal
ParseParts(ip, fp) ==
    IF ~IsDigits(ip) \/ ~IsDigits(fp) \/ (ip = <<>> /\ fp = <<>>) \/ Len(fp) > 2
    THEN [ok |-> FALSE, f |-> F(0)]
    ELSE [ok |-> TRUE, f |-> F(Magnitude(ip, fp))]

\* an unsigned decimal: digits, at most one ".", one or two fraction digits
ParseUnsigned(body, dots) ==
    IF dots = {} THEN ParseParts(body, <<>>)
    ELSE IF Cardinality(dots) > 1 THEN [ok |-> FALSE, f |-> F(0)]
    ELSE ParseParts(SubSeq(body, 1, (CHOOSE i \in dots : TRUE) - 1),
                    SubSeq(body, (CHOOSE i \in dots : TRUE) + 1, Len(body)))

Negate(r) == [ok |-> r.ok, f |-> F(-r.f.v)]

\* strconv.ParseFloat of a decimal with at most two fraction digits
ParseFloat(s) ==
    IF s # <<>> /\ s[1] = "-"
    THEN Negate(ParseUnsigned(Tail(s), {i \in 1..(Len(s) - 1) : s[i + 1] = "."}))
    ELSE ParseUnsigned(s, {i \in 1..Len(s) : s[i] = "."})

\* a float64 field tagged `json:",string"`: a missing key or null leaves the
\* field at its zero value, a string is parsed, a bare number is refused
DecodeFloatString(j) ==
    CASE j.j \in {"absent", "null"} -> [ok |-> TRUE, f |-> F(0)]
      [] j.j = "string" -> ParseFloat(j.s)
      [] OTHER -> [ok |-> FALSE, f |-> F(0)]

\* a string field: a missing key or null leaves "", a string is stored
DecodeString(j) ==
    CASE j.j \in {"absent", "null"} -> [ok |-> TRUE, s |-> <<>>]
      [] j.j = "string" -> [ok |-> TRUE, s |-> j.s]
      [] OTHER -> [ok |-> FALSE, s |-> <<>>]

\* an int64 field
DecodeInt(j) ==
    CASE j.j \in {"absent", "null"} -> [ok |-> TRUE, n |-> 0]
      [] j.j = "number" /\ ~j.x.nan /\ j.x.v % Scale = 0 -> [ok |-> TRUE, n |-> j.x.v \div Scale]
      [] OTHER -> [ok |-> FALSE, n |-> 0]

ZeroSimpleObservation == [Id |-> 0, Latitude |-> F(0), Longitude |-> F(0)]
ZeroFullObservation == [Id |-> 0, Latitude |-> <<>>, Longitude |-> <<>>]

\* the SimpleObservation of its decoded fields; one bad field fails the decode
SimpleObservation(id, lat, lng) ==
    [ok |-> id.ok /\ lat.ok /\ lng.ok,
     v  |-> [Id |-> id.n, Latitude |-> lat.f, Longitude |-> lng.f]]

\* json.Unmarshal into a SimpleObservation (Id, Latitude, Longitude of its fields)
DecodeSimpleObservation(b) ==
    CASE b.j = "null" -> [ok |-> TRUE, v |-> ZeroSimpleObservation]
      [] b.j = "object" -> SimpleObservation(DecodeInt(b.o.id),
                                             DecodeFloatString(b.o.latitude),
                                             DecodeFloatString(b.o.longitude))
      [] OTHER -> [ok |-> FALSE, v |-> ZeroSimpleObservation]

\* the FullObservation of its decoded fields
FullObservation(id, lat, lng) ==
    [ok |-> id.ok /\ lat.ok /\ lng.ok,
     v  |-> [Id |-> id.n, Latitude |-> lat.s, Longitude |-> lng.s]]

\* json.Unmarshal into a FullObservation (Id, Latitude, Longitude of its fields)
DecodeFullObservation(b) ==
    CASE b.j = "null" -> [ok |-> TRUE, v |-> ZeroFullObservation]
      [] b.j = "object" -> FullObservation(DecodeInt(b.o.id), DecodeString(b.o.latitude),
                                           DecodeString(b.o.longitude))
      [] OTHER -> [ok |-> FALSE, v |-> ZeroFullObservation]

\* the slice of its decoded elements; one bad element fails the decode
ObservationList(ds) ==
    [ok |-> \A i \in 1..Len(ds) : ds[i].ok, v |-> [i \in 1..Len(ds) |-> ds[i].v]]

\* json.Unmarshal into a []*SimpleObservation: null leaves the nil slice
DecodeObservationList(b) ==
    CASE b.j = "null" -> [ok |-> TRUE, v |-> <<>>]
      [] b.j = "array" ->
           ObservationList([i \in 1..Len(b.elems) |-> DecodeSimpleObservation(b.elems[i])])
      [] OTHER -> [ok |-> FALSE, v |-> <<>>]

\* json.Unmarshal into the target of a call: "list", "simple", "full", or
\* "any" (an interface{}, which takes every JSON value)
Decode(target, b) ==
    CASE target = "list" -> DecodeObservationList(b)
      [] target = "simple" -> DecodeSimpleObservation(b)
      [] target = "full" -> DecodeFullObservation(b)
      [] target = "any" -> [ok |-> b.j # "garbage", v |-> None]

\* the value a target holds before anything is decoded into it
Zero(target) ==
    CASE target = "list" -> <<>>
      [] target = "simple" -> ZeroSimpleObservation
      [] target = "full" -> ZeroFullObservation
      [] OTHER -> None


-----------------------------------------------------------------------------
(* Errors and results. *)

TransportError(e) == [type |-> "TransportError", id |-> e]
UnexpectedStatusError(st) == [type |-> "UnexpectedStatusError", status |-> st]
DecodeError == [type |-> "DecodeError"]
\* json.Marshal's UnsupportedValueError
EncodeError == [type |-> "EncodeError"]
\* the url.Error of http.NewRequest
RequestError == [type |-> "RequestError"]
\* fmt.Errorf(prefix + "%v", e): a new error value holding e's text
Errorf(prefix, e) == [type |-> "errorString", prefix |-> prefix, text |-> e]

\* a call returns a value and an error (Nil for a nil pointer or a nil error;
\* None for a result the operation's signature does not have), or panics
Return(v, e) == [k |-> "return", value |-> v, err |-> e]
Panic(msg) == [k |-> "panic", value |-> None, err |-> msg]

-----------------------------------------------------------------------------
(* The client's plumbing: buildUrl, http.NewRequest, execute, get. *)

\* url.PathEscape of a path segment
RECURSIVE PathEscape(_)
PathEscape(s) ==
    IF s = <<>> THEN <<>>
    ELSE (IF s[1] \in Unreserved THEN <<s[1]>>
          ELSE IF s[1] = " " THEN <<"%", "2", "0">>
          ELSE Hex[s[1]]) \o PathEscape(Tail(s))

\* Client.buildUrl: the root URL followed by the path, its dynamic segment escaped
buildUrl(c, prefix, segment, suffix) == c \o prefix \o PathEscape(segment) \o suffix

ObservationsJson == <<"/", "o", "b", "s", "e", "r", "v", "a", "t", "i", "o", "n", "s", ".", "j", "s", "o", "n">>
ObservationsSlash == <<"/", "o", "b", "s", "e", "r", "v", "a", "t", "i", "o", "n", "s", "/">>
DotJson == <<".", "j", "s", "o", "n">>

\* http.NewRequest: url.Parse refuses a URL holding an ASCII control character
NewRequest(method, u, body) ==
    [ok  |-> \A i \in 1..Len(u) : u[i] # "\t",
     req |-> [method |-> method, url |-> u, body |-> body]]

\* the error and value of a decode d into target
Decoded(d, target) ==
    IF d.ok THEN [err |-> Nil, value |-> d.v] ELSE [err |-> DecodeError, value |-> Zero(target)]

\* Client.execute: hands the request to the HTTP executor, which answers out;
\* a transport error is returned as it is, a status other than needsStatus is
\* an UnexpectedStatusError, and the body is decoded only into a non-nil target
execute(req, target, needsStatus, out) ==
    IF out.t = "transport" THEN [err |-> TransportError(out.id), value |-> Zero(target)]
    ELSE IF out.status # needsStatus
         THEN [err |-> UnexpectedStatusError(out.status), value |-> Zero(target)]
    ELSE IF target = "nil" THEN [err |-> Nil, value |-> None]
    ELSE Decoded(Decode(target, out.body), target)

\* what the executor was handed by one call of execute
Sent(req, target, needsStatus) ==
    [method |-> req.method, url |-> req.url, body |-> req.body,
     needsStatus |-> needsStatus, target |-> target]

\* what get returns once execute answered r
getResult(r, req, target, out) ==
    [paging |-> IF r.err = Nil THEN out.paging ELSE Nil, err |-> r.err,
     value |-> r.value, log |-> <<Sent(req, target, StatusOK)>>]

\* get with its request n built
getRequest(n, target, out) ==
    IF ~n.ok
    THEN [paging |-> Nil, err |-> RequestError, value |-> Zero(target), log |-> <<>>]
    ELSE getResult(execute(n.req, target, StatusOK, out), n.req, target, out)

\* Client.get: one GET expecting 200, decoded into target, with the paging headers
get(endpoint, target, out) == getRequest(NewRequest("GET", endpoint, None), target, out)

-----------------------------------------------------------------------------
(* GetObservations: the query of the list endpoint. *)

SetPaging_PerPageAlways(v, opt) ==
    LET v1 == IF IsSet(opt.Page) THEN Set(v, <<"p", "a", "g", "e">>, Itoa(opt.Page.v)) ELSE v
    IN  Set(v1, <<"p", "e", "r", "_", "p", "a", "g", "e">>, IF IsSet(opt.PerPage) THEN Itoa(opt.PerPage.v) ELSE <<>>)

SetPaging(v, opt) ==
    LET v1 == IF IsSet(opt.Page) THEN Set(v, <<"p", "a", "g", "e">>, Itoa(opt.Page.v)) ELSE v
    IN  IF IsSet(opt.PerPage) THEN Set(v1, <<"p", "e", "r", "_", "p", "a", "g", "e">>, Itoa(opt.PerPage.v)) ELSE v1

SetRectangle(v, opt) ==
    IF IsSet(opt.Rectangle)
    THEN LET r  == opt.Rectangle.v
             v1 == Set(v, <<"s", "w", "l", "n", "g">>, FormatFloat(r.Southwest.Longitude))
             v2 == Set(v1, <<"s", "w", "l", "a", "t">>, FormatFloat(r.Southwest.Latitude))
             v3 == Set(v2, <<"n", "e", "l", "n", "g">>, FormatFloat(r.Northeast.Longitude))
         IN  Set(v3, <<"n", "e", "l", "a", "t">>, FormatFloat(r.Northeast.Latitude))
    ELSE v

SetOrder_DefaultWins(v, opt) ==
    LET v1 == IF IsSet(opt.OrderAscending)
              THEN Set(v, <<"o", "r", "d", "e", "r">>, IF opt.OrderAscending.v THEN <<"a", "s", "c">> ELSE <<"d", "e", "s", "c">>)
              ELSE v
    IN  IF IsSet(opt.OrderBy)
        THEN Set(Set(v1, <<"o", "r", "d", "e", "r", "_", "b", "y">>, opt.OrderBy.v), <<"o", "r", "d", "e", "r">>, <<"d", "e", "s", "c">>)
        ELSE v1

SetOrder(v, opt) ==
    LET v1 == IF IsSet(opt.OrderBy)
              THEN LET w == Set(v, <<"o", "r", "d", "e", "r", "_", "b", "y">>, opt.OrderBy.v)
                   IN  IF ~IsSet(opt.OrderAscending) THEN Set(w, <<"o", "r", "d", "e", "r">>, <<"d", "e", "s", "c">>) ELSE w
              ELSE v
    IN  IF IsSet(opt.OrderAscending)
        THEN Set(v1, <<"o", "r", "d", "e", "r">>, IF opt.OrderAscending.v THEN <<"a", "s", "c">> ELSE <<"d", "e", "s", "c">>)
        ELSE v1

SetUpdatedSince(v, opt) ==
    IF IsSet(opt.UpdatedSince)
    THEN Set(v, <<"u", "p", "d", "a", "t", "e", "d", "_", "s", "i", "n", "c", "e">>, FormatRFC3339(opt.UpdatedSince.v))
    ELSE v

SetHasGeo_OnlyWhenTrue(v, opt) ==
    IF IsSet(opt.HasGeo) /\ opt.HasGeo.v THEN Set(v, <<"h", "a", "s", "[", "]">>, <<"g", "e", "o">>) ELSE v

SetHasGeo(v, opt) ==
    IF IsSet(opt.HasGeo) THEN Set(v, <<"h", "a", "s", "[", "]">>, <<"g", "e", "o">>) ELSE v

SetOn(v, opt) ==
    IF IsSet(opt.On) THEN Set(v, <<"o", "n">>, FormatDate(opt.On.v)) ELSE v

\* the url.Values GetObservations fills from a non-nil opt
QueryValues(opt) ==
    SetOn(SetHasGeo(SetUpdatedSince(SetOrder(SetRectangle(SetPaging(EmptyValues, opt),
                                                          opt), opt), opt), opt), opt)

AppendQuery_Always(u, params) == u \o <<"?">> \o params

AppendQuery(u, params) == IF params # <<>> THEN u \o <<"?">> \o params ELSE u

\* the URL GetObservations requests
GetObservationsUrl(c, opt) ==
    LET u == buildUrl(c, ObservationsJson, <<>>, <<>>)
    IN  IF IsSet(opt) THEN AppendQuery(u, Encode(QueryValues(opt.v))) ELSE u


\* what GetObservations returns once get answered g: the error of get is wrapped
GetObservationsResult(g) ==
    [ret |-> IF g.err # Nil
             THEN Return(Nil, Errorf(<<"E", "r", "r", "o", "r", " ", "g", "e", "t", "t", "i", "n", "g", " ", "o", "b", "s", "e", "r", "v", "a", "t", "i", "o", "n", "s", ":", " ">>, g.err))
             ELSE Return([Observations |-> g.value, Paging |-> g.paging], Nil),
     log |-> g.log]

\* GetObservations(opt): the page of observations
GetObservations(c, opt, out) ==
    GetObservationsResult(get(GetObservationsUrl(c, opt), "list", out))

\* what GetObservationsByUsername returns once get answered g
GetObservationsByUsernameResult(g) ==
    [ret |-> IF g.err # Nil THEN Return(Nil, g.err)
             ELSE Return([Observations |-> g.value, Paging |-> g.paging], Nil),
     log |-> g.log]

\* GetObservationsByUsername(username)
GetObservationsByUsername(c, username, out) ==
    GetObservationsByUsernameResult(
        get(buildUrl(c, ObservationsSlash, username, DotJson), "list", out))

\* what GetObservation and GetSimpleObservation return once get answered g
GetObservationResult(g) ==
    [ret |-> IF g.err # Nil THEN Return(Nil, g.err) ELSE Return(g.value, Nil),
     log |-> g.log]

\* GetObservation(id): the full view
GetObservation(c, id, out) ==
    GetObservationResult(get(buildUrl(c, ObservationsSlash, Itoa(id), DotJson), "full", out))

\* GetSimpleObservation(id): the summary view
GetSimpleObservation(c, id, out) ==
    GetObservationResult(get(buildUrl(c, ObservationsSlash, Itoa(id), DotJson), "simple", out))

-----------------------------------------------------------------------------
(* The mutating operations. *)

\* json.Marshal of an AddObservationOpt: every field is written; a NaN is refused
MarshalAddObservationOpt(opt) ==
    [ok   |-> ~opt.Latitude.nan /\ ~opt.Longitude.nan,
     body |-> [species_guess |-> JStr(opt.SpeciesGuess),
               observed_on_string |-> JStr(FormatRFC3339(opt.ObservedOnString)),
               description |-> JStr(opt.Description),
               latitude |-> JNum(opt.Latitude),
               longitude |-> JNum(opt.Longitude),
               positional_accuracy |-> JNum(F(opt.PositionalAccuracy * Scale)),
               tag_list |-> JStr(opt.Tags),
               geoprivacy |-> JStr(opt.GeoPrivacy)]]

\* AddObservation after execute answered r to the request sent: result[0]
AddObservationResult(r, sent) ==
    IF r.err # Nil THEN [ret |-> Return(Nil, r.err), log |-> <<sent>>]
    ELSE IF Len(r.value) = 0
         THEN [ret |-> Panic("index out of range [0] with length 0"), log |-> <<sent>>]
    ELSE [ret |-> Return(r.value[1], Nil), log |-> <<sent>>]

AddObservationRequest_Retry(n, out) ==
    IF ~n.ok THEN [ret |-> Return(Nil, RequestError), log |-> <<>>]
    ELSE IF out.t = "transport"
         THEN [ret |-> Return(Nil, TransportError(out.id)),
               log |-> <<Sent(n.req, "list", StatusCreated), Sent(n.req, "list", StatusCreated)>>]
    ELSE AddObservationResult(execute(n.req, "list", StatusCreated, out),
                              Sent(n.req, "list", StatusCreated))

\* AddObservation with its request n built: execute once, expecting 201
AddObservationRequest(n, out) ==
    IF ~n.ok THEN [ret |-> Return(Nil, RequestError), log |-> <<>>]
    ELSE AddObservationResult(execute(n.req, "list", StatusCreated, out),
                              Sent(n.req, "list", StatusCreated))

\* AddObservation with its options marshalled as m
AddObservationMarshalled(c, m, out) ==
    IF ~m.ok THEN [ret |-> Return(Nil, EncodeError), log |-> <<>>]
    ELSE AddObservationRequest(
             NewRequest("POST", buildUrl(c, ObservationsJson, <<>>, <<>>), m.body), out)

\* AddObservation(opt): POST the marshalled options, expect 201, return result[0]
AddObservation(c, opt, out) == AddObservationMarshalled(c, MarshalAddObservationOpt(opt), out)

\* the UpdateObservationOpt a caller builds: its fields are plain values, so a
\* field the caller does not set holds the zero value of its type; only
\* ObservedOnString is a pointer
MakeUpdateObservationOpt(i) ==
    [Id                 |-> i.Id,
     SpeciesGuess       |-> IF IsSet(i.SpeciesGuess) THEN i.SpeciesGuess.v ELSE <<>>,
     ObservedOnString   |-> i.ObservedOnString,
     Description        |-> IF IsSet(i.Description) THEN i.Description.v ELSE <<>>,
     Latitude           |-> IF IsSet(i.Latitude) THEN i.Latitude.v ELSE F(0),
     Longitude          |-> IF IsSet(i.Longitude) THEN i.Longitude.v ELSE F(0),
     PositionalAccuracy |-> IF IsSet(i.PositionalAccuracy) THEN i.PositionalAccuracy.v ELSE 0,
     Tags               |-> IF IsSet(i.Tags) THEN i.Tags.v ELSE <<>>,
     GeoPrivacy         |-> IF IsSet(i.GeoPrivacy) THEN i.GeoPrivacy.v ELSE <<>>]

\* the fields of an UpdateObservationOpt as written, with whether omitempty drops each
UpdateFields(opt) ==
    [species_guess |-> [omit |-> opt.SpeciesGuess = <<>>, val |-> JStr(opt.SpeciesGuess)],
     observed_on_string |-> [omit |-> ~IsSet(opt.ObservedOnString),
                             val |-> IF IsSet(opt.ObservedOnString)
                                     THEN JStr(FormatRFC3339(opt.ObservedOnString.v))
                                     ELSE JNull],
     description |-> [omit |-> opt.Description = <<>>, val |-> JStr(opt.Description)],
     latitude |-> [omit |-> opt.Latitude = F(0), val |-> JNum(opt.Latitude)],
     longitude |-> [omit |-> opt.Longitude = F(0), val |-> JNum(opt.Longitude)],
     positional_accuracy |-> [omit |-> opt.PositionalAccuracy = 0,
                              val |-> JNum(F(opt.PositionalAccuracy * Scale))],
     tag_list |-> [omit |-> opt.Tags = <<>>, val |-> JStr(opt.Tags)],
     geoprivacy |-> [omit |-> opt.GeoPrivacy = <<>>, val |-> JStr(opt.GeoPrivacy)]]

\* the object of the fields omitempty keeps
Kept(all) == [k \in {q \in DOMAIN all : ~all[q].omit} |-> all[k].val]

\* json.Marshal of an UpdateObservationOpt: Id is never written ("-"), and
\* omitempty drops an empty string, a nil pointer and a zero number
MarshalUpdateObservationOpt(opt) ==
    [ok |-> ~opt.Latitude.nan /\ ~opt.Longitude.nan, body |-> Kept(UpdateFields(opt))]

\* UpdateObservation with its request n built: execute once into an
\* interface{}, expecting 201, and return only the error
UpdateObservationRequest(n, out) ==
    IF ~n.ok THEN [ret |-> Return(None, RequestError), log |-> <<>>]
    ELSE [ret |-> Return(None, execute(n.req, "any", StatusCreated, out).err),
          log |-> <<Sent(n.req, "any", StatusCreated)>>]

\* UpdateObservation with its options marshalled as m
UpdateObservationMarshalled(c, id, m, out) ==
    IF ~m.ok THEN [ret |-> Return(None, EncodeError), log |-> <<>>]
    ELSE UpdateObservationRequest(
             NewRequest("PUT", buildUrl(c, ObservationsSlash, Itoa(id), DotJson), m.body), out)

\* UpdateObservation(opt): PUT the marshalled options, expect 201, drop the body
UpdateObservation(c, opt, out) ==
    UpdateObservationMarshalled(c, opt.Id, MarshalUpdateObservationOpt(opt), out)

DeleteObservationRequest_ExpectsOK(n, out) ==
    IF ~n.ok THEN [ret |-> Return(None, RequestError), log |-> <<>>]
    ELSE [ret |-> Return(None, execute(n.req, "nil", StatusOK, out).err),
          log |-> <<Sent(n.req, "nil", StatusOK)>>]

\* DeleteObservation with its request n built: execute once with a nil
\* target, expecting 201
DeleteObservationRequest(n, out) ==
    IF ~n.ok THEN [ret |-> Return(None, RequestError), log |-> <<>>]
    ELSE [ret |-> Return(None, execute(n.req, "nil", StatusCreated, out).err),
          log |-> <<Sent(n.req, "nil", StatusCreated)>>]

\* DeleteObservation(id): DELETE with an empty body, expect 201, decode nothing
DeleteObservation(c, id, out) ==
    DeleteObservationRequest(
        NewRequest("DELETE", buildUrl(c, ObservationsSlash, Itoa(id), DotJson), <<>>), out)

-----------------------------------------------------------------------------
(* The state machine: a caller makes one call after another on a client. *)

Init ==
    /\ rootUrl \in RootUrls
    /\ pc = "idle"
    /\ op = "none"
    /\ arg = None
    /\ intent = None
    /\ execLog = <<>>
    /\ outcome = None
    /\ ret = None

\* the state after a call of operation o with argument a that computed r
Called(o, a, i, out, r) ==
    /\ pc' = "returned"
    /\ op' = o
    /\ arg' = a
    /\ intent' = i
    /\ execLog' = r.log
    /\ outcome' = IF r.log = <<>> THEN None ELSE out
    /\ ret' = r.ret
    /\ UNCHANGED rootUrl

CallGetObservations ==
    /\ pc = "idle"
    /\ \E opt \in GetObservationsOpts, out \in Outcomes(ListBodies) :
          Called("GetObservations", opt, None, out, GetObservations(rootUrl, opt, out))

CallGetObservationsByUsername ==
    /\ pc = "idle"
    /\ \E username \in Usernames, out \in Outcomes(ListBodies) :
          Called("GetObservationsByUsername", username, None, out,
                 GetObservationsByUsername(rootUrl, username, out))

CallGetObservation ==
    /\ pc = "idle"
    /\ \E id \in Ids, out \in Outcomes(ObjectBodies) :
          Called("GetObservation", id, None, out, GetObservation(rootUrl, id, out))

CallGetSimpleObservation ==
    /\ pc = "idle"
    /\ \E id \in Ids, out \in Outcomes(ObjectBodies) :
          Called("GetSimpleObservation", id, None, out, GetSimpleObservation(rootUrl, id, out))

CallAddObservation ==
    /\ pc = "idle"
    /\ \E opt \in AddObservationOpts, out \in Outcomes(ListBodies) :
          Called("AddObservation", opt, None, out, AddObservation(rootUrl, opt, out))

CallUpdateObservation ==
    /\ pc = "idle"
    /\ \E i \in UpdateIntents, out \in Outcomes(OtherBodies) :
          LET opt == MakeUpdateObservationOpt(i)
          IN  Called("UpdateObservation", opt, i, out, UpdateObservation(rootUrl, opt, out))

CallDeleteObservation ==
    /\ pc = "idle"
    /\ \E id \in Ids, out \in Outcomes(OtherBodies) :
          Called("DeleteObservation", id, None, out, DeleteObservation(rootUrl, id, out))

\* the caller takes the result; nothing of a call outlives it
CallerContinues ==
    /\ pc = "returned"
    /\ pc' = "idle"
    /\ op' = "none"
    /\ arg' = None
    /\ intent' = None
    /\ execLog' = <<>>
    /\ outcome' = None
    /\ ret' = None
    /\ UNCHANGED rootUrl

Next ==
    \/ CallGetObservations
    \/ CallGetObservationsByUsername
    \/ CallGetObservation
    \/ CallGetSimpleObservation
    \/ CallAddObservation
    \/ CallUpdateObservation
    \/ CallDeleteObservation
    \/ CallerContinues

Spec == Init /\ [][Next]_vars


-----------------------------------------------------------------------------
(* What the claims speak of. *)

Returned(o) == pc = "returned" /\ op = o
\* the executor was invoked, and answered with a response (not a transport error)
Invoked == execLog # <<>>
Responded == Invoked /\ outcome.t = "response"
Mutating == {"AddObservation", "UpdateObservation", "DeleteObservation"}

\* the URL GetObservations requested, and the parameters of its query
RequestedUrl == execLog[1].url
Params == ParseQuery(RawQuery(RequestedUrl))
KeysOf(ps) == {p[1] : p \in ps}
ValuesOf(ps, k) == {p[2] : p \in {q \in ps : q[1] = k}}
BaseUrl == rootUrl \o ObservationsJson

\* the fields of a GetObservationsOpt with the keys each owns
OwnedKeys ==
    [Page |-> {<<"p", "a", "g", "e">>}, PerPage |-> {<<"p", "e", "r", "_", "p", "a", "g", "e">>},
     Rectangle |-> {<<"s", "w", "l", "n", "g">>, <<"s", "w", "l", "a", "t">>, <<"n", "e", "l", "n", "g">>, <<"n", "e", "l", "a", "t">>},
     OrderBy |-> {<<"o", "r", "d", "e", "r", "_", "b", "y">>, <<"o", "r", "d", "e", "r">>}, OrderAscending |-> {<<"o", "r", "d", "e", "r">>},
     UpdatedSince |-> {<<"u", "p", "d", "a", "t", "e", "d", "_", "s", "i", "n", "c", "e">>}, HasGeo |-> {<<"h", "a", "s", "[", "]">>}, On |-> {<<"o", "n">>}]

\* the keys owned by the fields the caller set (none for a nil opt)
ExpectedKeys(opt) ==
    IF IsSet(opt) THEN UNION {OwnedKeys[f] : f \in {g \in DOMAIN OwnedKeys : IsSet(opt.v[g])}}
    ELSE {}

\* C3: GetObservations writes order_by iff OrderBy is set, exactly one order
\* iff OrderBy or OrderAscending is set, and the order is asc for
\* OrderAscending = true, desc for false, desc for OrderBy alone.
C3_SortEncoding ==
    (Returned("GetObservations") /\ Invoked /\ IsSet(arg)) =>
        \A ps \in {Params}, by \in {arg.v.OrderBy}, asc \in {arg.v.OrderAscending} :
            /\ (<<"o", "r", "d", "e", "r", "_", "b", "y">> \in KeysOf(ps)) <=> IsSet(by)
            /\ Cardinality({p \in ps : p[1] = <<"o", "r", "d", "e", "r">>})
                 = (IF IsSet(by) \/ IsSet(asc) THEN 1 ELSE 0)
            /\ (IsSet(asc) /\ asc.v) => ValuesOf(ps, <<"o", "r", "d", "e", "r">>) = {<<"a", "s", "c">>}
            /\ (IsSet(asc) /\ ~asc.v) => ValuesOf(ps, <<"o", "r", "d", "e", "r">>) = {<<"d", "e", "s", "c">>}
            /\ (IsSet(by) /\ ~IsSet(asc)) => ValuesOf(ps, <<"o", "r", "d", "e", "r">>) = {<<"d", "e", "s", "c">>}

\* a call with a sort field and an explicit ascending direction was made
C3_Witness ==
    /\ Returned("GetObservations") /\ Invoked /\ IsSet(arg)
    /\ IsSet(arg.v.OrderBy) /\ arg.v.OrderAscending = Some(TRUE)
    /\ <<<<"o", "r", "d", "e", "r">>, <<"a", "s", "c">>>> \in Params

\* C4 as claimed: the query's keys are exactly the keys owned by the set
\* fields, and no parameter has an empty value.
C4_Original ==
    (Returned("GetObservations") /\ Invoked) =>
        \A ps \in {Params} :
            /\ KeysOf(ps) = ExpectedKeys(arg)
            /\ \A p \in ps : p[2] # <<>>

\* C4 as amended: the query's keys are exactly the keys owned by the set
\* fields, one value each; every parameter but order_by has a non-empty
\* value, and order_by carries the caller's OrderBy as it is (empty only when
\* the caller set the empty string); page=2 with perPage=50 alone gives
\* exactly page=2&per_page=50.
C4_QueryKeys ==
    (Returned("GetObservations") /\ Invoked) =>
        \A ps \in {Params} :
            /\ KeysOf(ps) = ExpectedKeys(arg)
            /\ Cardinality(ps) = Cardinality(KeysOf(ps))
            /\ \A p \in ps : p[1] # <<"o", "r", "d", "e", "r", "_", "b", "y">> => p[2] # <<>>
            /\ (IsSet(arg) /\ IsSet(arg.v.OrderBy)) => <<<<"o", "r", "d", "e", "r", "_", "b", "y">>, arg.v.OrderBy.v>> \in ps
            /\ (IsSet(arg) /\ ExpectedKeys(arg) = {<<"p", "a", "g", "e">>, <<"p", "e", "r", "_", "p", "a", "g", "e">>}
                  /\ arg.v.Page = Some(2) /\ arg.v.PerPage = Some(50))
               => RawQuery(RequestedUrl) = <<"p", "a", "g", "e", "=", "2", "&", "p", "e", "r", "_", "p", "a", "g", "e", "=", "5", "0">>

\* a call with only page=2 and perPage=50 was made
C4_Witness ==
    /\ Returned("GetObservations") /\ Invoked /\ IsSet(arg)
    /\ arg.v.Page = Some(2) /\ arg.v.PerPage = Some(50)
    /\ ExpectedKeys(arg) = {<<"p", "a", "g", "e">>, <<"p", "e", "r", "_", "p", "a", "g", "e">>}
    /\ Params = {<<<<"p", "a", "g", "e">>, <<"2">>>>, <<<<"p", "e", "r", "_", "p", "a", "g", "e">>, <<"5", "0">>>>}

\* C5: with a nil opt or with no field set GetObservations requests exactly
\* the base URL, without "?"; it appends "?" and the query iff a parameter
\* was produced.
C5_CleanBaseUrl ==
    (Returned("GetObservations") /\ Invoked) =>
        /\ ExpectedKeys(arg) = {} => RequestedUrl = BaseUrl /\ ~HasQuery(RequestedUrl)
        /\ ExpectedKeys(arg) # {} =>
              /\ Len(RequestedUrl) > Len(BaseUrl) + 1
              /\ SubSeq(RequestedUrl, 1, Len(BaseUrl) + 1) = BaseUrl \o <<"?">>
              /\ Params # {}

\* a call with a non-nil opt whose fields are all unset was made
C5_Witness ==
    /\ Returned("GetObservations") /\ Invoked /\ IsSet(arg)
    /\ ExpectedKeys(arg) = {}
    /\ RequestedUrl = BaseUrl

\* the opt with HasGeo pointing to the other boolean
FlipHasGeo(opt) == Some([opt.v EXCEPT !.HasGeo = Some(~opt.v.HasGeo.v)])

\* C6: a set HasGeo, true or false, gives the one parameter has[]=geo and the
\* same URL as the other boolean does; an unset HasGeo gives no has[] key.
C6_HasGeoMarker ==
    (Returned("GetObservations") /\ Invoked /\ IsSet(arg)) =>
        \A ps \in {Params} :
            /\ IsSet(arg.v.HasGeo) =>
                  /\ {p \in ps : p[1] = <<"h", "a", "s", "[", "]">>} = {<<<<"h", "a", "s", "[", "]">>, <<"g", "e", "o">>>>}
                  /\ RequestedUrl = GetObservationsUrl(rootUrl, FlipHasGeo(arg))
            /\ ~IsSet(arg.v.HasGeo) => <<"h", "a", "s", "[", "]">> \notin KeysOf(ps)

\* a call with HasGeo set to false was made
C6_Witness ==
    /\ Returned("GetObservations") /\ Invoked /\ IsSet(arg)
    /\ arg.v.HasGeo = Some(FALSE)
    /\ <<<<"h", "a", "s", "[", "]">>, <<"g", "e", "o">>>> \in Params


\* C1 as claimed: AddObservation returns the first element of the decoded list
\* on 201, a DecodeError and no result when that list is empty, and an error
\* and no result on any other status; it never crashes.
C1_CreateResult ==
    (Returned("AddObservation") /\ Responded) =>
        \A d \in {DecodeObservationList(outcome.body)} :
            /\ (outcome.status = StatusCreated /\ d.ok /\ Len(d.v) >= 1)
                  => ret = Return(d.v[1], Nil)
            /\ (outcome.status = StatusCreated /\ d.ok /\ Len(d.v) = 0)
                  => ret = Return(Nil, DecodeError)
            /\ outcome.status # StatusCreated
                  => ret.k = "return" /\ ret.value = Nil /\ ret.err # Nil

\* the JSON keys of an UpdateObservationOpt, by field
UpdateKeyOf ==
    [SpeciesGuess |-> "species_guess", ObservedOnString |-> "observed_on_string",
     Description |-> "description", Latitude |-> "latitude", Longitude |-> "longitude",
     PositionalAccuracy |-> "positional_accuracy", Tags |-> "tag_list",
     GeoPrivacy |-> "geoprivacy"]

\* C2 as claimed: the body UpdateObservation sends has no key of a field the
\* caller left unset, and has the key of every field the caller set, also
\* when set to the zero value of its type.
C2_UpdateBodyKeys ==
    (Returned("UpdateObservation") /\ Invoked) =>
        \A f \in DOMAIN UpdateKeyOf :
            (UpdateKeyOf[f] \in DOMAIN execLog[1].body) <=> IsSet(intent[f])

\* whether a body is JSON at all
Parses(b) == b.j # "garbage"

\* C7 as claimed: the mutating operations ask for 201 and fail on any other
\* status; on 201 DeleteObservation returns no error and decodes nothing, and
\* UpdateObservation returns no error and no value.
C7_Original ==
    (pc = "returned" /\ op \in Mutating /\ Responded) =>
        /\ execLog[1].needsStatus = StatusCreated
        /\ outcome.status # StatusCreated => ret.k = "return" /\ ret.err # Nil
        /\ (outcome.status # StatusCreated /\ op = "AddObservation") => ret.value = Nil
        /\ (outcome.status = StatusCreated /\ op = "DeleteObservation")
              => ret = Return(None, Nil) /\ execLog[1].target = "nil"
        /\ (outcome.status = StatusCreated /\ op = "UpdateObservation")
              => ret = Return(None, Nil)

\* C7 as amended: the mutating operations ask for 201 and fail on any other
\* status (create with no result); on 201 DeleteObservation returns no error
\* and decodes nothing; on 201 UpdateObservation returns no value, and no
\* error when the body is JSON, a DecodeError when it is not.
C7_MutatingStatus ==
    (pc = "returned" /\ op \in Mutating /\ Responded) =>
        /\ execLog[1].needsStatus = StatusCreated
        /\ outcome.status # StatusCreated => ret.k = "return" /\ ret.err # Nil
        /\ (outcome.status # StatusCreated /\ op = "AddObservation") => ret.value = Nil
        /\ (outcome.status = StatusCreated /\ op = "DeleteObservation")
              => ret = Return(None, Nil) /\ execLog[1].target = "nil"
        /\ (outcome.status = StatusCreated /\ op = "UpdateObservation")
              => ret = Return(None, IF Parses(outcome.body) THEN Nil ELSE DecodeError)

\* UpdateObservation got a 201 whose body is JSON and returned no error
C7_Witness ==
    /\ Returned("UpdateObservation") /\ Responded
    /\ outcome.status = StatusCreated /\ Parses(outcome.body)
    /\ execLog[1].needsStatus = StatusCreated
    /\ ret = Return(None, Nil)

\* C8 as claimed: whatever the operation, a transport error of the executor
\* is returned to the caller as the same error value, with no result.
C8_TransportErrorUnchanged ==
    (pc = "returned" /\ Invoked /\ outcome.t = "transport") =>
        /\ ret.k = "return"
        /\ ret.err = TransportError(outcome.id)
        /\ ret.value \in {Nil, None}

\* C9 as claimed: a summary observation whose record has no latitude (or
\* longitude), the key absent or null, never decodes to the coordinate 0.
C9_NoGeoIsNotZero ==
    (Returned("GetSimpleObservation") /\ Responded /\ ret.k = "return" /\ ret.err = Nil
       /\ outcome.body.j = "object") =>
        /\ outcome.body.o.latitude.j \in {"absent", "null"} => ret.value.Latitude # F(0)
        /\ outcome.body.o.longitude.j \in {"absent", "null"} => ret.value.Longitude # F(0)

\* what keeps a call from reaching the executor: options json.Marshal refuses,
\* a URL http.NewRequest refuses
EncodingFails ==
    op \in {"AddObservation", "UpdateObservation"} /\ (arg.Latitude.nan \/ arg.Longitude.nan)
ConstructionFails == \E i \in 1..Len(rootUrl) : rootUrl[i] = "\t"

\* C10: a call invokes the executor at most once: once when the options were
\* encoded and the request was built, never when either failed.
C10_SingleRequest ==
    pc = "returned" =>
        /\ Len(execLog) <= 1
        /\ (EncodingFails \/ ConstructionFails) => Len(execLog) = 0
        /\ ~(EncodingFails \/ ConstructionFails) => Len(execLog) = 1

\* AddObservation was answered with a transport error after its one request
C10_Witness ==
    /\ Returned("AddObservation") /\ Invoked
    /\ outcome.t = "transport"
    /\ Len(execLog) = 1 /\ ret.err = TransportError(outcome.id)

====
